---- MODULE Spec2Model ----
(***************************************************************************)
(* A model of dbunload.py: one run of main(), which checks its two paths,  *)
(* prepares the query (set_oracle_optional_args), and exports the result   *)
(* set to the output file in batches (get_oracle_results, write_to_file).  *)
(*                                                                         *)
(* Text is a sequence of symbols.  The symbol "oracle_argument_" stands    *)
(* for that run of characters, so the three tokens are three symbols long  *)
(* and a token can still be formed across the edge of a replaced value.    *)
(* The output file is the sequence of its lines; a line is represented by  *)
(* the row csv.writer encoded into it (one line per row, in call order).   *)
(***************************************************************************)
EXTENDS Integers, Sequences, FiniteSets, TLC

\* ---------------------------------------------------------------- bounds
MaxRows == 4
MaxFetch == 3
MaxCols == 2
MaxLen == 4

\* ------------------------------------------------------ program constants
\* DBUnload.oracle_array_size, the class-level default
DefaultArraySize == 1000

\* ------------------------------------------------------------- optionals
\* Python's None and a supplied value
None == {}
Some(v) == {v}
Get(o) == CHOOSE v \in o : TRUE

Range(s) == {s[i] : i \in 1..Len(s)}

\* --------------------------------------------------------- query preparer
Chars == {":", "oracle_argument_", "1", "2", "3", "x"}

\* the token ":oracle_argument_<n>"
Token(n) == <<":", "oracle_argument_", ToString(n)>>

\* str.replace(old, new) for a non-empty old: a single left-to-right scan,
\* non-overlapping occurrences, the replacement text is not rescanned
RECURSIVE ReplaceFrom(_, _, _, _)
ReplaceFrom(s, old, new, i) ==
    IF i > Len(s) THEN <<>>
    ELSE IF i + Len(old) - 1 <= Len(s) /\ SubSeq(s, i, i + Len(old) - 1) = old
         THEN new \o ReplaceFrom(s, old, new, i + Len(old))
         ELSE <<s[i]>> \o ReplaceFrom(s, old, new, i + 1)

Replace(s, old, new) == ReplaceFrom(s, old, new, 1)

\* one "if arg is not None: query = query.replace(token, arg)" statement
ReplaceSlot(query, n, arg) ==
    IF arg # None THEN Replace(query, Token(n), Get(arg)) ELSE query

\* the three statements in sequence, each on the result of the one before
set_oracle_optional_args(query, args) ==
    ReplaceSlot(ReplaceSlot(ReplaceSlot(query, 1, args[1]), 2, args[2]), 3, args[3])

\* ---------------------------------------------------------- result sets
\* the cursor's description: one (name, type) entry per column
Description(n) == [j \in 1..n |-> <<"COL" \o ToString(j), "DB_TYPE_VARCHAR">>]

\* row i of a result set with n columns; rows are pairwise distinct
Row(i, n) == [j \in 1..n |-> "r" \o ToString(i) \o "c" \o ToString(j)]
ResultSet(r, n) == [i \in 1..r |-> Row(i, n)]

\* column_names = [column[0] for column in cursor.description]
ColumnNames(description) == [j \in 1..Len(description) |-> description[j][1]]

\* a fetch that ignores the size and hands out all the remaining rows
FetchManyAll(result, pos, size) == SubSeq(result, pos + 1, Len(result))

\* cursor.fetchmany(size) with `pos` rows already consumed
FetchMany(result, pos, size) ==
    SubSeq(result, pos + 1, IF pos + size <= Len(result) THEN pos + size ELSE Len(result))

\* ---------------------------------------------------------- dialect writer
\* an open that truncates in every mode
OpenFileTruncates(content, mode) == <<>>

\* open(path, mode): 'w' truncates, 'a' keeps the content
OpenFile(content, mode) == IF mode = "w" THEN <<>> ELSE content

\* csv_writer.writerows(rows) if multiple is True else csv_writer.writerow(rows)
CsvLines(rows, multiple) == IF multiple THEN rows ELSE <<rows>>

\* a handle that is left open when the call returns
WithExitLeak(h) == h

\* leaving the with-block closes the handle
WithExit(h) == "none"

\* what an earlier run may have left at the output path
StaleFile == <<<<"OLD_COL">>, <<"old_row_1">>, <<"old_row_2">>>>
PriorFiles == {<<>>, StaleFile}

VARIABLES
    pc,                 \* position of the run
    sql_file_exists,    \* os.path.isfile(arguments.sql_file)
    writable,           \* the output path can be created and opened
    file_exists, file,  \* the output file and its lines
    handle,             \* mode of the open handle on the output file, or "none"
    opens,              \* modes of the successful open() calls, in order
    template, args,     \* content of the sql file; arguments.oracle_argument_1..3
    query,              \* the prepared query
    array_size_arg,     \* arguments.oracle_array_size
    oracle_array_size,  \* self.oracle_array_size
    description, result,\* cursor.description and the rows the query returns
    connection, cursor, \* "none", "open" or "closed"
    pos,                \* rows the cursor has handed out
    rows,               \* the current batch
    row_count,
    fetch_log,          \* length of the batch each completed fetchmany returned
    fetch_calls,        \* fetchmany calls made
    reported,           \* the "Rows unloaded" figure, once printed
    error,              \* what ended the run early, or "none"
    exit_code           \* None while running

vars == <<pc, sql_file_exists, writable, file_exists, file, handle, opens,
          template, args, query, array_size_arg, oracle_array_size,
          description, result, connection, cursor, pos, rows, row_count,
          fetch_log, fetch_calls, reported, error, exit_code>>

inputs == <<sql_file_exists, writable, template, args, array_size_arg>>
db == <<description, result>>
out == <<file_exists, file, handle, opens>>
loop == <<pos, rows, row_count, fetch_log, fetch_calls>>

\* ------------------------------------------------------------------ Init
ExportTemplates ==
    { <<"x">> \o Token(1), Token(1) \o Token(2) }
ExportArgs ==
    { [n \in 1..3 |-> None], [n \in 1..3 |-> IF n = 1 THEN Some(<<"x">>) ELSE None] }

\* the state right after "dbunload = DBUnload()", before anything ran
InitRest ==
    /\ handle = "none"
    /\ opens = <<>>
    /\ query = <<>>
    /\ oracle_array_size = DefaultArraySize
    /\ connection = "none"
    /\ cursor = "none"
    /\ pos = 0
    /\ rows = <<>>
    /\ row_count = 0
    /\ fetch_log = <<>>
    /\ fetch_calls = 0
    /\ reported = None
    /\ error = "none"
    /\ exit_code = None

Init ==
    /\ pc = "main"
    /\ sql_file_exists \in BOOLEAN
    /\ writable \in BOOLEAN
    /\ file_exists \in BOOLEAN
    /\ file \in (IF file_exists THEN PriorFiles ELSE {<<>>})
    /\ template \in ExportTemplates
    /\ args \in ExportArgs
    /\ array_size_arg \in {None} \cup {Some(f) : f \in 1..MaxFetch}
    /\ \E n \in 1..MaxCols, r \in 0..MaxRows :
          /\ description = Description(n)
          /\ result = ResultSet(r, n)
    /\ InitRest

\* every text of at most MaxLen symbols
Templates == UNION {[1..n -> Chars] : n \in 0..MaxLen}

\* an argument is absent, empty, plain text, or text holding a later token
ArgOptions == {None, Some(<<>>), Some(<<"x">>), Some(Token(3))}

\* the query preparer alone: get_oracle_results at the point where it has
\* opened the sql file, for every template and every choice of arguments
InitPrepare ==
    /\ pc = "read_sql"
    /\ sql_file_exists = TRUE
    /\ writable = TRUE
    /\ file_exists = TRUE
    /\ file = <<>>
    /\ template \in Templates
    /\ args \in [1..3 -> ArgOptions]
    /\ array_size_arg = None
    /\ description = Description(1)
    /\ result = ResultSet(0, 1)
    /\ InitRest

\* ------------------------------------------------------------------ exits
\* exit(1), or an exception nobody catches: the interpreter ends with status 1
Die(why) ==
    /\ pc' = "exited"
    /\ error' = why
    /\ exit_code' = Some(1)

\* ------------------------------------------------------------------- main
\* if not os.path.isfile(sql_file): exit(1)
CheckSqlFile ==
    /\ pc = "main"
    /\ IF sql_file_exists
       THEN pc' = "touch" /\ UNCHANGED <<error, exit_code>>
       ELSE Die("sql_file")
    /\ UNCHANGED <<inputs, db, out, loop, query, oracle_array_size,
                   connection, cursor, reported>>

\* os.system("touch ..."), then: if not os.path.isfile(output_file): exit(1)
TouchOutputFile ==
    /\ pc = "touch"
    /\ file_exists' = (file_exists \/ writable)
    /\ IF file_exists'
       THEN pc' = "read_sql" /\ UNCHANGED <<error, exit_code>>
       ELSE Die("output_file")
    /\ UNCHANGED <<inputs, db, file, handle, opens, loop, query,
                   oracle_array_size, connection, cursor, reported>>

\* query = self.set_oracle_optional_args(fileInput.read())
PrepareQuery ==
    /\ pc = "read_sql"
    /\ query' = set_oracle_optional_args(template, args)
    /\ pc' = "connect"
    /\ UNCHANGED <<inputs, db, out, loop, oracle_array_size, connection,
                   cursor, reported, error, exit_code>>

\* ------------------------------------------------------ get_oracle_results
\* connection = cx_Oracle.connect(con_string); cursor = connection.cursor()
Connect ==
    /\ pc = "connect"
    /\ connection' = "open"
    /\ cursor' = "open"
    /\ pc' = "session"
    /\ UNCHANGED <<inputs, db, out, loop, query, oracle_array_size,
                   reported, error, exit_code>>

\* cx_Oracle.connect raises: nothing was acquired, nobody catches it
ConnectFails ==
    /\ pc = "connect"
    /\ Die("connect")
    /\ UNCHANGED <<inputs, db, out, loop, query, oracle_array_size,
                   connection, cursor, reported>>

\* self.oracle_array_size after "if arguments.oracle_array_size is not None"
ArraySize(current, arg) == IF arg # None THEN Get(arg) ELSE current

\* ALTER SESSION, then the array size is taken from the arguments
SessionSetup ==
    /\ pc = "session"
    /\ oracle_array_size' = ArraySize(oracle_array_size, array_size_arg)
    /\ pc' = "execute"
    /\ UNCHANGED <<inputs, db, out, loop, query, connection, cursor,
                   reported, error, exit_code>>

\* the ALTER SESSION statement raises: nobody catches it
SessionSetupFails ==
    /\ pc = "session"
    /\ Die("session")
    /\ UNCHANGED <<inputs, db, out, loop, query, oracle_array_size,
                   connection, cursor, reported>>

\* cursor.execute(query) succeeds: the cursor stands before the first row
Execute ==
    /\ pc = "execute"
    /\ pos' = 0
    /\ pc' = "header_open"
    /\ UNCHANGED <<inputs, db, out, rows, row_count, fetch_log, fetch_calls,
                   query, oracle_array_size, connection, cursor, reported,
                   error, exit_code>>

\* except cx_Oracle.DatabaseError: print(error.message); exit(1)
ExecuteFails ==
    /\ pc = "execute"
    /\ Die("execute")
    /\ UNCHANGED <<inputs, db, out, loop, query, oracle_array_size,
                   connection, cursor, reported>>

\* ----------------------------------------------------------- write_to_file
\* the header appended, the batches written in truncating mode
HeaderModeAppend == "a"
RowsModeTruncate == "w"

\* the mode each call site passes
HeaderMode == "w"
RowsMode == "a"

\* with open(output_file, mode) as output_file: the open itself
OpenStep(mode, next) ==
    /\ writable
    /\ file' = OpenFile(file, mode)
    /\ handle' = mode
    /\ opens' = Append(opens, mode)
    /\ pc' = next
    /\ UNCHANGED <<file_exists, error, exit_code>>

\* open() raises (no permission on the path): the file is left as it was
OpenFailsStep ==
    /\ ~writable
    /\ Die("open")
    /\ UNCHANGED <<file_exists, file, handle, opens>>

\* the body of the with-block and its exit
BodyStep(rs, multiple, next) ==
    /\ file' = file \o CsvLines(rs, multiple)
    /\ handle' = WithExit(handle)
    /\ pc' = next
    /\ UNCHANGED <<file_exists, opens, error, exit_code>>

\* the write raises (disk full): some of the lines, not all, reached the
\* file; the with-block still closes the handle; nobody catches the error
BodyFailsStep(rs, multiple) ==
    /\ \E k \in 0..(Len(CsvLines(rs, multiple)) - 1) :
          file' = file \o SubSeq(CsvLines(rs, multiple), 1, k)
    /\ handle' = WithExit(handle)
    /\ Die("write")
    /\ UNCHANGED <<file_exists, opens>>

\* self.write_to_file(column_names, 'w', False)
WriteHeaderOpen ==
    /\ pc = "header_open"
    /\ OpenStep(HeaderMode, "header_body")
    /\ UNCHANGED <<inputs, db, loop, query, oracle_array_size, connection,
                   cursor, reported>>

WriteHeaderOpenFails ==
    /\ pc = "header_open"
    /\ OpenFailsStep
    /\ UNCHANGED <<inputs, db, loop, query, oracle_array_size, connection,
                   cursor, reported>>

WriteHeaderBody ==
    /\ pc = "header_body"
    /\ BodyStep(ColumnNames(description), FALSE, "fetch")
    /\ UNCHANGED <<inputs, db, loop, query, oracle_array_size, connection,
                   cursor, reported>>

WriteHeaderBodyFails ==
    /\ pc = "header_body"
    /\ BodyFailsStep(ColumnNames(description), FALSE)
    /\ UNCHANGED <<inputs, db, loop, query, oracle_array_size, connection,
                   cursor, reported>>

\* ------------------------------------------------------------ the fetch loop
\* a loop that takes a short batch for the end of the result set
AfterFetchShort(batch) ==
    IF Len(batch) < oracle_array_size THEN "close" ELSE "rows_open"

\* where the loop goes after a fetch: "if not rows: break"
AfterFetch(batch) == IF Len(batch) = 0 THEN "close" ELSE "rows_open"

\* rows = cursor.fetchmany(self.oracle_array_size); if not rows: break;
\* row_count = row_count + len(rows)
Fetch ==
    /\ pc = "fetch"
    /\ rows' = FetchMany(result, pos, oracle_array_size)
    /\ pos' = pos + Len(rows')
    /\ fetch_calls' = fetch_calls + 1
    /\ fetch_log' = Append(fetch_log, Len(rows'))
    /\ row_count' = row_count + Len(rows')
    /\ pc' = AfterFetch(rows')
    /\ UNCHANGED <<inputs, db, out, query, oracle_array_size, connection,
                   cursor, reported, error, exit_code>>

\* fetchmany raises a database error: nobody catches it
FetchFails ==
    /\ pc = "fetch"
    /\ fetch_calls' = fetch_calls + 1
    /\ Die("fetch")
    /\ UNCHANGED <<inputs, db, out, pos, rows, row_count, fetch_log, query,
                   oracle_array_size, connection, cursor, reported>>

\* self.write_to_file(rows, 'a', True)
WriteRowsOpen ==
    /\ pc = "rows_open"
    /\ OpenStep(RowsMode, "rows_body")
    /\ UNCHANGED <<inputs, db, loop, query, oracle_array_size, connection,
                   cursor, reported>>

WriteRowsBody ==
    /\ pc = "rows_body"
    /\ BodyStep(rows, TRUE, "fetch")
    /\ UNCHANGED <<inputs, db, loop, query, oracle_array_size, connection,
                   cursor, reported>>

WriteRowsBodyFails ==
    /\ pc = "rows_body"
    /\ BodyFailsStep(rows, TRUE)
    /\ UNCHANGED <<inputs, db, loop, query, oracle_array_size, connection,
                   cursor, reported>>

\* cursor.close(); connection.close()
CloseAll ==
    /\ pc = "close"
    /\ cursor' = "closed"
    /\ connection' = "closed"
    /\ pc' = "report"
    /\ UNCHANGED <<inputs, db, out, loop, query, oracle_array_size,
                   reported, error, exit_code>>

\* print("Rows unloaded: ..."); main returns and the process ends with 0
Report ==
    /\ pc = "report"
    /\ reported' = Some(row_count)
    /\ pc' = "exited"
    /\ exit_code' = Some(0)
    /\ UNCHANGED <<inputs, db, out, loop, query, oracle_array_size,
                   connection, cursor, error>>

Next ==
    \/ CheckSqlFile
    \/ TouchOutputFile
    \/ PrepareQuery
    \/ Connect
    \/ ConnectFails
    \/ SessionSetup
    \/ SessionSetupFails
    \/ Execute
    \/ ExecuteFails
    \/ WriteHeaderOpen
    \/ WriteHeaderOpenFails
    \/ WriteHeaderBody
    \/ WriteHeaderBodyFails
    \/ Fetch
    \/ FetchFails
    \/ WriteRowsOpen
    \/ WriteRowsBody
    \/ WriteRowsBodyFails
    \/ CloseAll
    \/ Report

Spec == Init /\ [][Next]_vars

NextPrepare == PrepareQuery

SpecPrepare == InitPrepare /\ [][NextPrepare]_vars

\* ================================================================ claims
Header == ColumnNames(description)
R == Len(result)
F == oracle_array_size
Ceil(a, b) == (a + b - 1) \div b

RECURSIVE Sum(_)
Sum(s) == IF s = <<>> THEN 0 ELSE s[1] + Sum(Tail(s))

Finished == exit_code = Some(0)

\* the array size has been taken from the arguments
SetupDone ==
    \/ pc \in {"execute", "header_open", "header_body", "fetch", "rows_open",
               "rows_body", "close", "report"}
    \/ pc = "exited" /\ error \notin {"sql_file", "output_file", "connect", "session"}

\* C1: once the run has opened the output file, whatever the file holds
\* starts with the header, which is the cursor's column names in the
\* cursor's order; the header occurs once and every later line is a row of
\* the result set; a finished run has the header, and for an empty result
\* set nothing but the header.
C1_HeaderFirstOnce ==
    /\ (opens # <<>> /\ file # <<>>) =>
          /\ Len(file[1]) = Len(description)
          /\ \A j \in 1..Len(description) : file[1][j] = description[j][1]
          /\ \A i \in 2..Len(file) : file[i] # Header /\ file[i] \in Range(result)
    /\ Finished => file # <<>> /\ file[1] = Header
    /\ (Finished /\ R = 0) => file = <<Header>>

C1_Witness ==
    /\ Finished
    /\ Len(description) = 2
    /\ R >= 2
    /\ file[1] = <<"COL1", "COL2">>
    /\ Len(file) = R + 1

\* C2: when the export finishes without error, the lines after the header
\* are exactly the rows of the result set in cursor order, and the reported
\* row count is the size of the result set.
C2_AllRowsInOrder ==
    Finished =>
        /\ SubSeq(file, 2, Len(file)) = result
        /\ reported = Some(R)

C2_Witness ==
    /\ Finished
    /\ R = 4
    /\ F = 3
    /\ fetch_log = <<3, 1, 0>>
    /\ reported = Some(4)

\* C3 as stated: a finished export has made ceil(R / F) fetch calls.
C3_FetchCallsCeil == Finished => fetch_calls = Ceil(R, F)

\* C3 amended: a finished export has made ceil(R / F) + 1 fetch calls, the
\* ceil(R / F) that returned a batch and the one that returned the empty
\* batch ending the loop; R = 3 with F = 2 makes the calls 2, 1, 0.
C3_FetchCallsCeilPlusOne ==
    Finished =>
        /\ fetch_calls = Ceil(R, F) + 1
        /\ Len(fetch_log) = fetch_calls
        /\ \A i \in 1..Len(fetch_log) : (fetch_log[i] = 0) <=> (i = Len(fetch_log))
        /\ (R = 3 /\ F = 2) => fetch_log = <<2, 1, 0>>

C3_Witness == Finished /\ R = 3 /\ F = 2 /\ fetch_calls = 3

\* the template with every token of a supplied slot replaced by the slot's
\* value in one pass, everything else copied
TokenAt(t, i, n) == i + 2 <= Len(t) /\ SubSeq(t, i, i + 2) = Token(n)

RECURSIVE SubstitutedFrom(_, _, _)
SubstitutedFrom(t, a, i) ==
    IF i > Len(t) THEN <<>>
    ELSE IF \E n \in 1..3 : a[n] # None /\ TokenAt(t, i, n)
         THEN LET n == CHOOSE m \in 1..3 : a[m] # None /\ TokenAt(t, i, m)
              IN  Get(a[n]) \o SubstitutedFrom(t, a, i + 3)
         ELSE <<t[i]>> \o SubstitutedFrom(t, a, i + 1)

\* C4: the prepared query is the template with every occurrence of each
\* supplied slot's token replaced by that slot's value, whatever the value
\* holds, and is otherwise the template symbol for symbol; the tokens of the
\* slots without a value stay.
C4_SubstitutesTemplateTokens ==
    pc = "connect" => query = SubstitutedFrom(template, args, 1)

\* C5: whenever the run has stopped after acquiring the connection, the
\* cursor and the connection are closed.
C5_ReleasedOnEveryExit ==
    (pc = "exited" /\ connection # "none") =>
        cursor = "closed" /\ connection = "closed"

\* C6: when the execution of the query raised a database error, the run
\* ended with exit code 1, fetched nothing, and the output file holds at
\* most one line, whatever it held before.
C6_ExecuteErrorLeavesAtMostHeader ==
    error = "execute" =>
        /\ exit_code = Some(1)
        /\ fetch_calls = 0
        /\ Len(file) <= 1

\* C7: in every run that got as far as executing the query, the file was
\* opened in the truncating mode exactly once, first; every other open
\* appended; and the file holds no line of an earlier run.
C7_TruncatedOncePerRun ==
    (pc = "exited" /\ SetupDone) =>
        /\ opens # <<>>
        /\ opens[1] = "w"
        /\ \A i \in 2..Len(opens) : opens[i] = "a"
        /\ \A i \in 1..Len(file) : file[i] \notin Range(StaleFile)

\* C8: when a fetch raised after the header and k >= 0 batches were written,
\* the run ended with exit code 1 after that single failed call, reporting
\* nothing, and the file holds the header followed by exactly the rows of
\* the k batches fetched: the first rows of the result set, in order.
C8_FetchErrorLeavesWholeBatches ==
    error = "fetch" =>
        /\ pc = "exited"
        /\ exit_code = Some(1)
        /\ reported = None
        /\ fetch_calls = Len(fetch_log) + 1
        /\ \A i \in 1..Len(fetch_log) : fetch_log[i] = F \/ pos = R
        /\ pos = Sum(fetch_log)
        /\ file = <<Header>> \o SubSeq(result, 1, pos)

C8_Witness ==
    /\ error = "fetch"
    /\ Len(fetch_log) = 1
    /\ pos < R
    /\ Len(file) = 1 + pos

\* C9: the output file is open only inside a write_to_file call: the
\* handle is closed at every fetch and when the run has stopped, and at
\* every fetch the file already holds every row fetched so far.
C9_FileClosedBetweenWrites ==
    /\ pc \notin {"header_body", "rows_body"} => handle = "none"
    /\ pc = "fetch" => Len(file) = 1 + row_count

C9_Witness ==
    /\ pc = "fetch"
    /\ opens = <<"w", "a", "a">>
    /\ handle = "none"
    /\ row_count = 2

\* C10: the fetch size is the supplied one, or 1000; the batch in hand never
\* has more rows than the fetch size; a batch handed to the writer has at
\* least one row; an empty batch is the last one fetched and ends the loop;
\* and at every fetch all rows fetched before are already in the file.
C10_BatchWithinFetchSize ==
    /\ SetupDone =>
          F = (IF array_size_arg = None THEN DefaultArraySize ELSE Get(array_size_arg))
    /\ Len(rows) <= F
    /\ pc \in {"rows_open", "rows_body"} => Len(rows) >= 1
    /\ \A i \in 1..Len(fetch_log) :
          fetch_log[i] = 0 => i = Len(fetch_log) /\ pc \in {"close", "report", "exited"}
    /\ pc = "fetch" => pos = Len(file) - 1

C10_Witness ==
    /\ pc = "rows_body"
    /\ Len(rows) = F
    /\ fetch_log = <<1, 1, 1>>
    /\ pos < R
====
